---- MODULE Spec2Model ----
(***************************************************************************)
(* Client side of the MAVLink FTP engine, src/mavsdk/core/                 *)
(* mavlink_ftp_client.cpp: the work queue (download and upload items), the *)
(* inbound-message handler, the retry timer, and the entry points that     *)
(* still send their request directly (reset, list_directory, rename,       *)
(* crc32) or are empty (create_directory, remove_directory, remove_file).  *)
(*                                                                         *)
(* The class declaration (mavlink_ftp_client.h) is not part of the sources *)
(* at hand: the default values of a Work item, RETRIES, max_data_length    *)
(* and the initial value of the members are taken from the written         *)
(* specification.                                                          *)
(***************************************************************************)
EXTENDS Integers, Sequences, FiniteSets, TLC

(* ------------------------------ bounds -------------------------------- *)

\* Number of calls of public *_async entry points in one behaviour.
MaxOps == 2

\* Number of sequence numbers the engine may consume in one behaviour.
MaxReq == 5

\* Lengths of the path arguments: the longest that fits, and one more.
PathLens == {238, 239}

\* (from, to) lengths of rename_async: sums 2, 237 and 238.
RenameLens == {<<1, 1>>, <<118, 119>>, <<119, 119>>}

\* Sizes of the remote file (OPEN_FILE_RO ack) and of the local file (upload):
\* empty, one full data region, and one byte more.
FileSizes == {0, 239, 240}

\* _seq_number of an engine whose earlier operations have consumed all the
\* sequence numbers below it: the next requests cross the 16-bit wrap.
SeqBeforeWrap == 2 ^ 16 - 2

(* -------------------------- program constants ------------------------- *)

max_data_length == 239

RETRIES == 4

\* uint16_t arithmetic of seq_number.
SeqMod == 2 ^ 16

U8(x) == x % 256

\* Serial number arithmetic on uint16_t: a comes before b.
seq_lt(a, b) ==
    \/ a < b /\ (b - a) < ((SeqMod - 1) \div 2)
    \/ a > b /\ (a - b) > ((SeqMod - 1) \div 2)

Min_first(a, b) == a

Min(a, b) == IF a < b THEN a ELSE b

Ids == 1 .. (MaxOps + 1)

EmptyPayload ==
    [seq_number |-> 0, session |-> 0, opcode |-> "CMD_NONE", offset |-> 0, size |-> 0]

NoFrame ==
    [seq_number |-> 0, session |-> 0, opcode |-> "NO_FRAME", offset |-> 0, size |-> 0]

\* A Work item as its constructor leaves it.
NewWork(id, kind, pathlen) ==
    [id |-> id, kind |-> kind, started |-> FALSE, last_opcode |-> "CMD_NONE",
     last_seq_number |-> 0, retries |-> RETRIES, payload |-> EmptyPayload,
     pathlen |-> pathlen, file_size |-> 0, bytes_transferred |-> 0]

VARIABLES
    _work_queue,    \* LockedQueue<Work>: sequence of Work items, front first
    _seq_number,    \* next sequence number, uint16_t
    _session,       \* session id put into READ/WRITE/TERMINATE requests
    _curr_op,       \* opcode of the directly sent request in flight
    timer_armed,    \* the timeout handler behind _timeout_cookie is registered
    nextId,         \* id given to the next requested operation
    ops,            \* id -> kind of the operation requested ("" if none yet)
    ev,             \* the entry point that ran last, with its input
    out,            \* frames sent by the step that ran last
    cbs,            \* callbacks invoked by the step that ran last
    termCount,      \* id -> number of terminal (non-Next) callbacks so far
    sentAny,        \* id -> some frame has been sent for the operation
    lastFrameOf,    \* id -> payload of the last frame sent for the item in the queue
    txCount,        \* id -> transmissions of the current request of the item in the queue
    accepted,       \* id -> seq_number of the last response the item in the queue reacted to, -1 if none
    nreq,           \* sequence numbers consumed so far
    lastSeq,        \* seq_number of the last frame sent (any) and of the last frame
                    \* sent that was not a retransmission (new), -1 if none
    lastNext,       \* id -> bytes of the last Next callback of the item in the queue, -1 if none
    net,            \* the link: requests and responses in flight, transmissions
                    \* lost since the last new request
    intact          \* id -> every chunk the download in the queue has written to
                    \* its local file came from the offset it was written at

vars == <<_work_queue, _seq_number, _session, _curr_op, timer_armed, nextId, ops,
          ev, out, cbs, termCount, sentAny, lastFrameOf, txCount, accepted, nreq,
          lastSeq, lastNext, net, intact>>

(* ------------------------- the step under way ------------------------- *)

\* The members a handler works on, with the frames and callbacks it has
\* produced so far.
Begin ==
    [q |-> _work_queue, seq |-> _seq_number, timer |-> timer_armed,
     curr_op |-> _curr_op, nextId |-> nextId, ops |-> ops, acc |-> accepted,
     out |-> <<>>, cbs |-> <<>>, wr |-> <<>>, net |-> net]

_send_mavlink_ftp_message(st, ctx, owner, payload) ==
    [st EXCEPT !.out = Append(@, [ctx |-> ctx, owner |-> owner, payload |-> payload])]

start_timer(st) == [st EXCEPT !.timer = TRUE]

stop_timer_noop(st) == st

stop_timer(st) == [st EXCEPT !.timer = FALSE]

\* callback() that leaves out the progress ticks.
callback_no_progress(st, id, result, bytes, total, direct) ==
    IF result = "Next" THEN st
    ELSE [st EXCEPT !.cbs = Append(@, [id |-> id, result |-> result, bytes |-> bytes,
                                       total |-> total, direct |-> direct])]

\* item.callback(result, progress) or callback(result): direct is TRUE when
\* the callback is invoked by the handler itself, FALSE when it is handed to
\* call_user_callback.
callback(st, id, result, bytes, total, direct) ==
    [st EXCEPT !.cbs = Append(@, [id |-> id, result |-> result, bytes |-> bytes,
                                  total |-> total, direct |-> direct])]

next_seq_stuck(st) == st

next_seq(st) == [st EXCEPT !.seq = (@ + 1) % SeqMod]

push_front(q, work) == <<work>> \o q

push_back(q, work) == Append(q, work)

(* ----------------------------- download ------------------------------- *)

download_start(st, work, ctx, open_ok) ==
    IF ~open_ok
    THEN [st |-> callback(st, work.id, "FileIoError", 0, 0, TRUE), work |-> work, ok |-> FALSE]
    ELSE LET w1 == [work EXCEPT
                      !.last_opcode = "CMD_OPEN_FILE_RO",
                      !.payload = [seq_number |-> st.seq, session |-> 0,
                                   opcode |-> "CMD_OPEN_FILE_RO", offset |-> 0,
                                   size |-> U8(work.pathlen + 1)]]
         IN [st |-> _send_mavlink_ftp_message(start_timer(next_seq(st)), ctx, w1.id, w1.payload),
             work |-> w1, ok |-> TRUE]

\* item.ofstream.write(payload->data, payload->size): the data of the payload,
\* read by the server from payload.offset, go to the end of the local file.
ofstream_write(st, work, p) ==
    [st EXCEPT !.wr = Append(@, [id |-> work.id, at |-> work.bytes_transferred,
                                 from |-> p.offset, size |-> p.size])]

more_to_read_le(work) == work.bytes_transferred <= work.file_size

\* The read loop goes on: item.bytes_transferred < item.file_size.
more_to_read(work) == work.bytes_transferred < work.file_size

download_continue(st, work, ctx, p, io_ok) ==
    LET readAck == p.req_opcode = "CMD_READ_FILE"
        w0 == IF p.req_opcode = "CMD_OPEN_FILE_RO"
              THEN [work EXCEPT !.file_size = p.data_u32]
              ELSE work
        doWrite == readAck /\ w0.bytes_transferred < w0.file_size
    IN IF doWrite /\ ~io_ok
       THEN [st |-> callback(st, work.id, "FileIoError", 0, 0, TRUE), work |-> w0, ok |-> FALSE]
       ELSE LET w1 == IF doWrite
                      THEN [w0 EXCEPT !.bytes_transferred = @ + p.size]
                      ELSE w0
                s0 == IF doWrite THEN ofstream_write(st, w0, p) ELSE st
                s1 == IF readAck
                      THEN callback(s0, w1.id, "Next", w1.bytes_transferred, w1.file_size, TRUE)
                      ELSE s0
            IN IF more_to_read(w1)
               THEN LET w2 == [w1 EXCEPT
                                 !.last_opcode = "CMD_READ_FILE",
                                 !.payload = [seq_number |-> s1.seq, session |-> _session,
                                              opcode |-> "CMD_READ_FILE",
                                              offset |-> w1.bytes_transferred,
                                              size |-> Min(max_data_length,
                                                           w1.file_size - w1.bytes_transferred)]]
                    IN [st |-> _send_mavlink_ftp_message(start_timer(next_seq(s1)), ctx, w2.id, w2.payload),
                        work |-> w2, ok |-> TRUE]
               ELSE LET w2 == [w1 EXCEPT
                                 !.last_opcode = "CMD_TERMINATE_SESSION",
                                 !.payload = [seq_number |-> s1.seq, session |-> _session,
                                              opcode |-> "CMD_TERMINATE_SESSION",
                                              offset |-> 0, size |-> 0]]
                    IN [st |-> _send_mavlink_ftp_message(start_timer(next_seq(s1)), ctx, w2.id, w2.payload),
                        work |-> w2, ok |-> TRUE]

(* ------------------------------ upload -------------------------------- *)

readsome_full(remaining) == max_data_length

\* item.ifstream.readsome(data, max_data_length) on a file with remaining
\* bytes left: the bytes read.
readsome(remaining) == Min(max_data_length, remaining)

\* fs: what the local file system answers for item.local_file_path.
upload_start(st, work, ctx, fs) ==
    IF ~fs.exists
    THEN [st |-> callback(st, work.id, "FileDoesNotExist", 0, 0, TRUE), work |-> work, ok |-> FALSE]
    ELSE IF ~fs.open_ok
    THEN [st |-> callback(st, work.id, "FileIoError", 0, 0, TRUE), work |-> work, ok |-> FALSE]
    ELSE LET w0 == [work EXCEPT !.file_size = fs.file_size]
         IN IF w0.pathlen >= max_data_length
            THEN [st |-> callback(st, work.id, "InvalidParameter", 0, 0, TRUE), work |-> w0, ok |-> FALSE]
            ELSE LET w1 == [w0 EXCEPT
                              !.last_opcode = "CMD_OPEN_FILE_WO",
                              !.payload = [seq_number |-> st.seq, session |-> 0,
                                           opcode |-> "CMD_OPEN_FILE_WO", offset |-> 0,
                                           size |-> U8(w0.pathlen + 1)]]
                 IN [st |-> _send_mavlink_ftp_message(start_timer(next_seq(st)), ctx, w1.id, w1.payload),
                     work |-> w1, ok |-> TRUE]

upload_continue(st, work, ctx, io_ok) ==
    IF work.bytes_transferred < work.file_size
    THEN LET bytes_read == readsome(work.file_size - work.bytes_transferred)
             w1 == [work EXCEPT
                      !.last_opcode = "CMD_WRITE_FILE",
                      !.payload = [seq_number |-> st.seq, session |-> _session,
                                   opcode |-> "CMD_WRITE_FILE",
                                   offset |-> work.bytes_transferred, size |-> 0]]
             s1 == next_seq(st)
         IN IF ~io_ok
            THEN [st |-> callback(s1, work.id, "FileIoError", 0, 0, TRUE), work |-> w1, ok |-> FALSE]
            ELSE LET w2 == [w1 EXCEPT !.payload.size = bytes_read,
                                      !.bytes_transferred = @ + bytes_read]
                     s2 == _send_mavlink_ftp_message(start_timer(s1), ctx, w2.id, w2.payload)
                 IN [st |-> callback(s2, w2.id, "Next", w2.bytes_transferred, w2.file_size, TRUE),
                     work |-> w2, ok |-> TRUE]
    ELSE LET w1 == [work EXCEPT
                      !.last_opcode = "CMD_TERMINATE_SESSION",
                      !.payload = [seq_number |-> st.seq, session |-> _session,
                                   opcode |-> "CMD_TERMINATE_SESSION",
                                   offset |-> 0, size |-> 0]]
             s1 == _send_mavlink_ftp_message(start_timer(next_seq(st)), ctx, w1.id, w1.payload)
         IN [st |-> callback(s1, w1.id, "Next", w1.bytes_transferred, w1.file_size, TRUE),
             work |-> w1, ok |-> TRUE]

(* ------------------------- results of a NAK --------------------------- *)

_translate(result) ==
    CASE result = "SUCCESS" -> "Success"
      [] result = "ERR_TIMEOUT" -> "Timeout"
      [] result = "ERR_FILE_IO_ERROR" -> "FileIoError"
      [] result = "ERR_FAIL_FILE_EXISTS" -> "FileExists"
      [] result = "ERR_FAIL_FILE_PROTECTED" -> "FileProtected"
      [] result = "ERR_UNKOWN_COMMAND" -> "Unsupported"
      [] result = "ERR_FAIL_FILE_DOES_NOT_EXIST" -> "FileDoesNotExist"
      [] OTHER -> "ProtocolError"

result_from_nak_plain(p) == _translate(p.data0)

result_from_nak(p) ==
    IF p.data0 = "ERR_FAIL_ERRNO" /\ p.data1 = "ENOENT"
    THEN _translate("ERR_FAIL_FILE_DOES_NOT_EXIST")
    ELSE _translate(p.data0)

(* --------------------------- do_work ---------------------------------- *)

\* do_work with the pop_front after a failed start missing.
do_work_step_nopop(st, open_ok, fs) ==
    IF st.q = <<>> THEN st
    ELSE LET work == Head(st.q) IN
         IF work.started THEN st
         ELSE LET w0 == [work EXCEPT !.started = TRUE]
                  r == IF w0.kind = "download"
                       THEN download_start(st, w0, "do_work", open_ok)
                       ELSE upload_start(st, w0, "do_work", fs)
              IN [r.st EXCEPT !.q = <<r.work>> \o Tail(st.q)]

\* open_ok: the local sink of a download opens; fs: the local file of an upload.
do_work_step(st, open_ok, fs) ==
    IF st.q = <<>> THEN st
    ELSE LET work == Head(st.q) IN
         IF work.started THEN st
         ELSE LET w0 == [work EXCEPT !.started = TRUE]
                  r == IF w0.kind = "download"
                       THEN download_start(st, w0, "do_work", open_ok)
                       ELSE upload_start(st, w0, "do_work", fs)
              IN IF r.ok
                 THEN [r.st EXCEPT !.q = <<r.work>> \o Tail(st.q)]
                 ELSE [r.st EXCEPT !.q = Tail(st.q)]

(* ----------------- process_mavlink_ftp_message ------------------------ *)

WrongTarget_system_only(p) ==
    p.target_system # "zero" /\ p.target_system # "own"

\* The frame is addressed to another system or component.
WrongTarget(p) ==
    \/ p.target_system # "zero" /\ p.target_system # "own"
    \/ p.target_component # "zero" /\ p.target_component # "own"

IgnoredByOpcode_never(work, p) == FALSE

\* The response answers another request than the last one of the head item.
IgnoredByOpcode(work, p) == work.last_opcode # p.req_opcode

\* The response was already seen.
IsDuplicate(work, seq_number) ==
    work.last_seq_number # 0 /\ work.last_seq_number = seq_number

\* The visit of a DownloadItem without `work->retries = RETRIES`.
visit_download_noreset(st, work, p, io_ok) ==
    IF p.opcode = "RSP_ACK"
    THEN IF p.req_opcode \in {"CMD_OPEN_FILE_RO", "CMD_READ_FILE"}
         THEN LET r == download_continue(st, work, "recv", p, io_ok)
              IN IF r.ok
                 THEN [st |-> r.st, work |-> r.work, pop |-> FALSE]
                 ELSE [st |-> stop_timer(r.st), work |-> r.work, pop |-> TRUE]
         ELSE IF p.req_opcode = "CMD_TERMINATE_SESSION"
         THEN [st |-> callback(stop_timer(st), work.id, "Success", 0, 0, TRUE),
               work |-> work, pop |-> TRUE]
         ELSE [st |-> st, work |-> work, pop |-> FALSE]
    ELSE IF p.opcode = "RSP_NAK"
    THEN [st |-> callback(stop_timer(st), work.id, result_from_nak(p), 0, 0, TRUE),
          work |-> work, pop |-> TRUE]
    ELSE [st |-> st, work |-> work, pop |-> FALSE]

\* The std::visit over the head item: [st, work, pop].
visit_download(st, work, p, io_ok) ==
    IF p.opcode = "RSP_ACK"
    THEN IF p.req_opcode \in {"CMD_OPEN_FILE_RO", "CMD_READ_FILE"}
         THEN LET r == download_continue(st, [work EXCEPT !.retries = RETRIES], "recv", p, io_ok)
              IN IF r.ok
                 THEN [st |-> r.st, work |-> r.work, pop |-> FALSE]
                 ELSE [st |-> stop_timer(r.st), work |-> r.work, pop |-> TRUE]
         ELSE IF p.req_opcode = "CMD_TERMINATE_SESSION"
         THEN [st |-> callback(stop_timer(st), work.id, "Success", 0, 0, TRUE),
               work |-> work, pop |-> TRUE]
         ELSE [st |-> st, work |-> work, pop |-> FALSE]
    ELSE IF p.opcode = "RSP_NAK"
    THEN [st |-> callback(stop_timer(st), work.id, result_from_nak(p), 0, 0, TRUE),
          work |-> work, pop |-> TRUE]
    ELSE [st |-> st, work |-> work, pop |-> FALSE]

visit_upload(st, work, p, io_ok) ==
    IF p.opcode = "RSP_ACK"
    THEN IF p.req_opcode \in {"CMD_OPEN_FILE_WO", "CMD_WRITE_FILE"}
         THEN LET r == upload_continue(st, [work EXCEPT !.retries = RETRIES], "recv", io_ok)
              IN IF r.ok
                 THEN [st |-> r.st, work |-> r.work, pop |-> FALSE]
                 ELSE [st |-> stop_timer(r.st), work |-> r.work, pop |-> TRUE]
         ELSE IF p.req_opcode = "CMD_TERMINATE_SESSION"
         THEN [st |-> callback(stop_timer(st), work.id, "Success", 0, 0, TRUE),
               work |-> work, pop |-> TRUE]
         ELSE [st |-> st, work |-> work, pop |-> FALSE]
    ELSE IF p.opcode = "RSP_NAK"
    THEN [st |-> callback(stop_timer(st), work.id, result_from_nak(p), 0, 0, TRUE),
          work |-> work, pop |-> TRUE]
    ELSE [st |-> st, work |-> work, pop |-> FALSE]

\* The visit reacts to the response: a NAK, or an ACK of a request of the item.
Handled(work, p) ==
    \/ p.opcode = "RSP_NAK"
    \/ /\ p.opcode = "RSP_ACK"
       /\ p.req_opcode \in (IF work.kind = "download"
                            THEN {"CMD_OPEN_FILE_RO", "CMD_READ_FILE", "CMD_TERMINATE_SESSION"}
                            ELSE {"CMD_OPEN_FILE_WO", "CMD_WRITE_FILE", "CMD_TERMINATE_SESSION"})

process_step(st, p, io_ok) ==
    IF WrongTarget(p) THEN st
    ELSE IF p.size > max_data_length THEN st
    ELSE IF st.q = <<>> THEN st
    ELSE LET work == Head(st.q) IN
         IF IgnoredByOpcode(work, p) THEN st
         ELSE IF IsDuplicate(work, p.seq_number) THEN st
         ELSE LET r == IF work.kind = "download"
                       THEN visit_download(st, work, p, io_ok)
                       ELSE visit_upload(st, work, p, io_ok)
                  s1 == IF Handled(work, p)
                        THEN [r.st EXCEPT !.acc[work.id] = p.seq_number]
                        ELSE r.st
              IN IF r.pop
                 THEN [s1 EXCEPT !.q = Tail(st.q)]
                 ELSE [s1 EXCEPT !.q = <<[r.work EXCEPT !.last_seq_number = p.seq_number]>>
                                       \o Tail(st.q)]

\* The payload p gets past the checks of process_mavlink_ftp_message and
\* reaches the visit of the head item.
Passes(p) ==
    /\ ~WrongTarget(p)
    /\ p.size <= max_data_length
    /\ _work_queue # <<>>
    /\ ~IgnoredByOpcode(Head(_work_queue), p)
    /\ ~IsDuplicate(Head(_work_queue), p.seq_number)

(* ----------------------------- timeout -------------------------------- *)

\* The visit of timeout() with the return after the pop missing.
timeout_item_noreturn(st, work) ==
    LET w1 == [work EXCEPT !.retries = @ - 1]
        s1 == IF w1.retries = 0 THEN callback(st, w1.id, "Timeout", 0, 0, TRUE) ELSE st
    IN [st |-> _send_mavlink_ftp_message(start_timer(s1), "timeout", w1.id, w1.payload),
        work |-> w1, pop |-> w1.retries = 0]

\* The visit of timeout() with start_timer() ahead of the test of retries.
timeout_item_rearm(st, work) ==
    LET w1 == [work EXCEPT !.retries = @ - 1]
    IN IF w1.retries = 0
       THEN [st |-> callback(start_timer(st), w1.id, "Timeout", 0, 0, TRUE),
             work |-> w1, pop |-> TRUE]
       ELSE [st |-> _send_mavlink_ftp_message(start_timer(st), "timeout", w1.id, w1.payload),
             work |-> w1, pop |-> FALSE]

\* The visit of timeout() that gives up at the first fire.
timeout_item_giveup(st, work) ==
    [st |-> callback(st, work.id, "Timeout", 0, 0, TRUE), work |-> work, pop |-> TRUE]

\* The visit of timeout(): the same for a DownloadItem and an UploadItem.
timeout_item(st, work) ==
    LET w1 == [work EXCEPT !.retries = @ - 1]
    IN IF w1.retries = 0
       THEN [st |-> callback(st, w1.id, "Timeout", 0, 0, TRUE), work |-> w1, pop |-> TRUE]
       ELSE [st |-> _send_mavlink_ftp_message(start_timer(st), "timeout", w1.id, w1.payload),
             work |-> w1, pop |-> FALSE]

timeout_step(st) ==
    IF st.q = <<>> THEN st
    ELSE LET r == timeout_item(st, Head(st.q))
         IN IF r.pop
            THEN [r.st EXCEPT !.q = Tail(st.q)]
            ELSE [r.st EXCEPT !.q = <<r.work>> \o Tail(st.q)]

(* ------------------- entry points that send directly ------------------ *)

\* A request sent by the entry point itself: no work item, _curr_op set.
direct_request(st, ctx, id, opcode, session, size) ==
    LET payload == [seq_number |-> st.seq, session |-> session, opcode |-> opcode,
                    offset |-> 0, size |-> size]
    IN _send_mavlink_ftp_message([next_seq(st) EXCEPT !.curr_op = opcode], ctx, id, payload)

reset_step(st, id) ==
    IF st.curr_op # "CMD_NONE"
    THEN callback(st, id, "Busy", 0, 0, TRUE)
    ELSE direct_request(st, "reset_async", id, "CMD_RESET_SESSIONS", _session, 0)

list_directory_step(st, id, pathlen) ==
    IF st.curr_op # "CMD_NONE"
    THEN callback(st, id, "Busy", 0, 0, TRUE)
    ELSE IF pathlen >= max_data_length
    THEN callback(st, id, "InvalidParameter", 0, 0, TRUE)
    ELSE direct_request(st, "list_directory_async", id, "CMD_LIST_DIRECTORY", 0, U8(pathlen + 1))

rename_step(st, id, from_len, to_len) ==
    IF st.curr_op # "CMD_NONE"
    THEN callback(st, id, "Busy", 0, 0, TRUE)
    ELSE IF from_len + to_len + 1 >= max_data_length
    THEN callback(st, id, "InvalidParameter", 0, 0, TRUE)
    ELSE direct_request(st, "rename_async", id, "CMD_RENAME", 0,
                        U8(U8(from_len + 1) + to_len + 1))

\* _calc_file_crc32_async, with the callback are_files_identical_async gives
\* it: every result is handed on through call_user_callback.
_calc_file_crc32_step(st, id, pathlen) ==
    IF st.curr_op # "CMD_NONE"
    THEN callback(st, id, "Busy", 0, 0, FALSE)
    ELSE IF pathlen >= max_data_length
    THEN callback(st, id, "InvalidParameter", 0, 0, FALSE)
    ELSE LET payload == [seq_number |-> st.seq, session |-> 0,
                         opcode |-> "CMD_CALC_FILE_CRC32", offset |-> 0,
                         size |-> U8(pathlen + 1)]
         IN _send_mavlink_ftp_message(
                start_timer([next_seq(st) EXCEPT !.curr_op = "CMD_CALC_FILE_CRC32"]),
                "are_files_identical_async", id, payload)

\* result_local: what _calc_local_file_crc32 returns for the local file.
are_files_identical_step(st, id, result_local, pathlen) ==
    IF result_local # "Success"
    THEN callback(st, id, result_local, 0, 0, FALSE)
    ELSE _calc_file_crc32_step(st, id, pathlen)

(* ------------------------------ inputs -------------------------------- *)

\* What the local file system answers when an item starts: the file of an
\* upload is missing, does not open, or opens with one of the sizes; the sink
\* of a download opens or not (open_ok).
LocalFiles ==
    {[exists |-> FALSE, open_ok |-> FALSE, file_size |-> 0],
     [exists |-> TRUE, open_ok |-> FALSE, file_size |-> 0]}
    \cup {[exists |-> TRUE, open_ok |-> TRUE, file_size |-> n] : n \in FileSizes}

LocalCrcResults == {"Success", "FileDoesNotExist", "FileIoError"}

\* data[0] and data[1] of a NAK.
NakData == {<<"ERR_FAIL_ERRNO", "ENOENT">>, <<"SUCCESS", "EIO">>, <<"ERR_EOF", "EIO">>}

\* The session id the server puts into its responses.
RxSession == CHOOSE n \in {7} : TRUE

\* Sizes of the data of a READ_FILE ack.
RxSizes == {0, 1, 239}

NoPayload ==
    [target_system |-> "none", target_component |-> "none", opcode |-> "CMD_NONE",
     req_opcode |-> "CMD_NONE", seq_number |-> 0, session |-> 0, size |-> 0,
     offset |-> 0, data_u32 |-> 0, data0 |-> "SUCCESS", data1 |-> "EIO"]

\* seq_number of the answer to the request in flight: request + 1.
ReplySeq ==
    IF _work_queue = <<>> THEN 0
    ELSE (Head(_work_queue).payload.seq_number + 1) % SeqMod

\* offset of the answer to the request in flight: the one of the request.
ReplyOffset ==
    IF _work_queue = <<>> THEN 0 ELSE Head(_work_queue).payload.offset

\* seq_number of the last response the head item saw: a duplicate carries it.
DuplicateSeq ==
    IF _work_queue = <<>> THEN 0 ELSE Head(_work_queue).last_seq_number

\* req_opcode of a response to the head item's last request.
HeadOpcode ==
    IF _work_queue = <<>> THEN "CMD_NONE" ELSE Head(_work_queue).last_opcode

\* req_opcode of a response to a request the head item did not send last.
OtherOpcode ==
    IF HeadOpcode = "CMD_READ_FILE" THEN "CMD_OPEN_FILE_RO" ELSE "CMD_READ_FILE"

\* (size, data as u32) of an ACK: a file size answers OPEN_FILE_RO, data
\* bytes answer READ_FILE.
AckData(req_opcode) ==
    IF req_opcode = "CMD_OPEN_FILE_RO" THEN {<<4, u>> : u \in FileSizes}
    ELSE IF req_opcode = "CMD_READ_FILE" THEN {<<z, 0>> : z \in RxSizes}
    ELSE {<<0, 0>>}

Ack(req_opcode, seq_number, d) ==
    [NoPayload EXCEPT !.target_system = "own", !.target_component = "own",
                      !.opcode = "RSP_ACK", !.req_opcode = req_opcode,
                      !.seq_number = seq_number, !.session = RxSession,
                      !.offset = ReplyOffset, !.size = d[1], !.data_u32 = d[2]]

Nak(req_opcode, seq_number, d) ==
    [NoPayload EXCEPT !.target_system = "zero", !.target_component = "zero",
                      !.opcode = "RSP_NAK", !.req_opcode = req_opcode,
                      !.seq_number = seq_number, !.size = 2,
                      !.data0 = d[1], !.data1 = d[2]]

\* The answers of the server to the request an entry point sent directly
\* (_curr_op): an ACK without data, an ACK with data, a NAK with ERR_EOF.
DirectAnswers ==
    {Ack(_curr_op, _seq_number, d) : d \in {<<0, 0>>, <<2, 0>>}}
    \cup {Nak(_curr_op, _seq_number, <<"ERR_EOF", "EIO">>)}

QueueAnswers ==
    \* the answers to the request in flight
    {Ack(HeadOpcode, ReplySeq, d) : d \in AckData(HeadOpcode)}
    \cup {Nak(HeadOpcode, ReplySeq, d) : d \in NakData}
    \* neither ACK nor NAK
    \cup {[Ack(HeadOpcode, ReplySeq, <<0, 0>>) EXCEPT !.opcode = "CMD_NONE"]}
    \* a response seen before, sent again
    \cup (IF _work_queue # <<>> /\ accepted[Head(_work_queue).id] = DuplicateSeq
          THEN {Ack(HeadOpcode, DuplicateSeq, <<1, 1>>)}
          ELSE {})
    \* a response to another request
    \cup {Ack(OtherOpcode, ReplySeq, <<1, 1>>)}
    \* addressed to someone else, or with a size above max_data_length
    \cup {[Nak(HeadOpcode, ReplySeq, <<"ERR_EOF", "EIO">>) EXCEPT
              !.target_system = t[1], !.target_component = t[2], !.size = t[3]] :
          t \in {<<"other", "own", 2>>, <<"own", "other", 2>>, <<"own", "own", 240>>}}

\* The payloads handed to process_mavlink_ftp_message: with work in the queue
\* those that concern the head item, else those that answer _curr_op.
RxPayloads == IF _work_queue = <<>> THEN DirectAnswers ELSE QueueAnswers

\* The answers of the local file system that matter to the item do_work starts.
StartInputs ==
    IF _work_queue = <<>> \/ Head(_work_queue).started
    THEN {CHOOSE fs \in LocalFiles : fs.open_ok}
    ELSE IF Head(_work_queue).kind = "download"
    THEN {fs \in LocalFiles : fs.exists /\ fs.file_size = 0}
    ELSE LocalFiles

\* The local write (download) or read (upload) the response leads to may fail.
IoResults(p) ==
    IF p.opcode = "RSP_ACK" /\ p.req_opcode \in {"CMD_READ_FILE", "CMD_OPEN_FILE_WO", "CMD_WRITE_FILE"}
    THEN BOOLEAN
    ELSE {TRUE}

(* ---------------------------- the actions ----------------------------- *)

CanSend == nreq < MaxReq

CanRequest == nextId <= MaxOps

Terminals(st, i) ==
    Cardinality({k \in DOMAIN st.cbs : st.cbs[k].id = i /\ st.cbs[k].result # "Next"})

FramesOf(st, i) == {k \in DOMAIN st.out : st.out[k].owner = i}

NextsOf(st, i) == {k \in DOMAIN st.cbs : st.cbs[k].id = i /\ st.cbs[k].result = "Next"}

LastFrameIn(st, i) ==
    st.out[CHOOSE k \in FramesOf(st, i) : \A j \in FramesOf(st, i) : j <= k]

\* The item of operation i is in the queue before the step or after it: the
\* observers of an item are kept up to the step that removes it.
InQueue(st, i) ==
    \/ \E k \in DOMAIN _work_queue : _work_queue[k].id = i
    \/ \E k \in DOMAIN st.q : st.q[k].id = i

\* The step st ends: the members take their new values, and the observers
\* (out, cbs, termCount, sentAny, lastFrameOf, txCount, nreq, lastSeq, lastNext,
\* intact) follow.
Commit(step, e) ==
    \E st \in {step} :
    /\ _work_queue' = st.q
    /\ _seq_number' = st.seq
    /\ _session' = _session
    /\ _curr_op' = st.curr_op
    /\ timer_armed' = st.timer
    /\ nextId' = st.nextId
    /\ ops' = st.ops
    /\ accepted' = [i \in Ids |-> IF InQueue(st, i) THEN st.acc[i] ELSE -1]
    /\ ev' = e
    /\ out' = st.out
    /\ cbs' = st.cbs
    /\ termCount' = [i \in Ids |-> Min(2, termCount[i] + Terminals(st, i))]
    /\ sentAny' = [i \in Ids |-> sentAny[i] \/ FramesOf(st, i) # {}]
    /\ lastFrameOf' = [i \in Ids |->
                         IF ~InQueue(st, i) THEN NoFrame
                         ELSE IF FramesOf(st, i) = {} THEN lastFrameOf[i]
                         ELSE LastFrameIn(st, i).payload]
    /\ txCount' = [i \in Ids |->
                     IF ~InQueue(st, i) THEN 0
                     ELSE IF FramesOf(st, i) = {} THEN txCount[i]
                     ELSE IF LastFrameIn(st, i).ctx = "timeout" THEN txCount[i] + 1
                     ELSE 1]
    /\ nreq' = nreq + ((st.seq - _seq_number) % SeqMod)
    /\ lastNext' = [i \in Ids |->
                      IF ~InQueue(st, i) THEN -1
                      ELSE IF NextsOf(st, i) = {} THEN lastNext[i]
                      ELSE st.cbs[CHOOSE k \in NextsOf(st, i) :
                                     \A j \in NextsOf(st, i) : j <= k].bytes]
    /\ net' = st.net
    /\ intact' = [i \in Ids |->
                    IF ~InQueue(st, i) THEN TRUE
                    ELSE intact[i] /\ \A k \in DOMAIN st.wr :
                                        st.wr[k].id = i => st.wr[k].from = st.wr[k].at]
    /\ lastSeq' = LET new == {k \in DOMAIN st.out : st.out[k].ctx # "timeout"}
                  IN [any |-> IF st.out = <<>> THEN lastSeq.any
                              ELSE st.out[Len(st.out)].payload.seq_number,
                      new |-> IF new = {} THEN lastSeq.new
                              ELSE st.out[CHOOSE k \in new : \A j \in new : j <= k].payload.seq_number]

Event(type, p, io) == [type |-> type, p |-> p, io |-> io]

\* An entry point or do_work has run with the input arg.
Called(type, arg) == [type |-> type, p |-> NoPayload, io |-> TRUE, arg |-> arg]

\* A new operation: its id, and its kind.
Requested(kind) ==
    [Begin EXCEPT !.nextId = @ + 1, !.ops[nextId] = kind]

download_async ==
    /\ CanRequest
    /\ \E pathlen \in PathLens :
         Commit([Requested("download") EXCEPT
                    !.q = push_back(@, NewWork(nextId, "download", pathlen))],
                Event("download_async", NoPayload, TRUE))

upload_async ==
    /\ CanRequest
    /\ \E pathlen \in PathLens :
         Commit([Requested("upload") EXCEPT
                    !.q = push_back(@, NewWork(nextId, "upload", pathlen))],
                Event("upload_async", NoPayload, TRUE))

reset_async ==
    /\ CanRequest /\ CanSend
    /\ Commit(reset_step(Requested("reset"), nextId), Event("reset_async", NoPayload, TRUE))

list_directory_async ==
    /\ CanRequest /\ CanSend
    /\ \E pathlen \in PathLens :
         Commit(list_directory_step(Requested("list_directory"), nextId, pathlen),
                Called("list_directory_async", pathlen))

rename_async ==
    /\ CanRequest /\ CanSend
    /\ \E lens \in RenameLens :
         Commit(rename_step(Requested("rename"), nextId, lens[1], lens[2]),
                Called("rename_async", lens))

are_files_identical_async ==
    /\ CanRequest /\ CanSend
    /\ \E result_local \in LocalCrcResults, pathlen \in PathLens :
         Commit(are_files_identical_step(Requested("are_files_identical"), nextId,
                                         result_local, pathlen),
                Called("are_files_identical_async", <<result_local, pathlen>>))

\* The three entry points whose body is commented out.
create_directory_async ==
    /\ CanRequest
    /\ Commit(Requested("create_directory"), Event("create_directory_async", NoPayload, TRUE))

remove_directory_async ==
    /\ CanRequest
    /\ Commit(Requested("remove_directory"), Event("remove_directory_async", NoPayload, TRUE))

remove_file_async ==
    /\ CanRequest
    /\ Commit(Requested("remove_file"), Event("remove_file_async", NoPayload, TRUE))

do_work ==
    /\ CanSend
    /\ \E fs \in StartInputs :
         Commit(do_work_step(Begin, fs.open_ok, fs), Called("do_work", fs))

process_mavlink_ftp_message ==
    /\ CanSend
    /\ \E p \in RxPayloads : \E io_ok \in IoResults(p) :
         Commit(process_step(Begin, p, io_ok), Event("recv", p, io_ok))

\* The registered timeout handler fires: it is registered once per start_timer.
timeout ==
    /\ timer_armed
    /\ Commit(timeout_step([Begin EXCEPT !.timer = FALSE]), Event("timeout", NoPayload, TRUE))

\* Nothing in flight, nothing lost; remote: the size of the file on the server.
EmptyLink == [req |-> {}, rsp |-> {}, lost |-> 0, remote |-> 0]

\* The members after construction, but for _seq_number, and the observers.
InitMembers ==
    /\ _work_queue = <<>>
    /\ _session = 0
    /\ _curr_op = "CMD_NONE"
    /\ timer_armed = FALSE
    /\ nextId = 1
    /\ ops = [i \in Ids |-> ""]
    /\ ev = Event("init", NoPayload, TRUE)
    /\ out = <<>>
    /\ cbs = <<>>
    /\ termCount = [i \in Ids |-> 0]
    /\ sentAny = [i \in Ids |-> FALSE]
    /\ lastFrameOf = [i \in Ids |-> NoFrame]
    /\ txCount = [i \in Ids |-> 0]
    /\ accepted = [i \in Ids |-> -1]
    /\ nreq = 0
    /\ lastSeq = [any |-> -1, new |-> -1]
    /\ lastNext = [i \in Ids |-> -1]
    /\ intact = [i \in Ids |-> TRUE]

Init == InitMembers /\ _seq_number = 0 /\ net = EmptyLink

\* The engine at rest after SeqBeforeWrap requests.
InitWrap == InitMembers /\ _seq_number = SeqBeforeWrap /\ net = EmptyLink

Next ==
    \/ download_async
    \/ upload_async
    \/ reset_async
    \/ list_directory_async
    \/ rename_async
    \/ are_files_identical_async
    \/ create_directory_async
    \/ remove_directory_async
    \/ remove_file_async
    \/ do_work
    \/ process_mavlink_ftp_message
    \/ timeout

Spec == Init /\ [][Next]_vars

SpecWrap == InitWrap /\ [][Next]_vars

(* ------------------ result_from_nak on every server code --------------- *)

\* data[0] of a NAK: the server result codes, and a byte that is none of them.
ServerResults ==
    {"SUCCESS", "ERR_FAIL", "ERR_FAIL_ERRNO", "ERR_INVALID_DATA_SIZE",
     "ERR_INVALID_SESSION", "ERR_NO_SESSIONS_AVAILABLE", "ERR_EOF",
     "ERR_UNKOWN_COMMAND", "ERR_FAIL_FILE_EXISTS", "ERR_FAIL_FILE_PROTECTED",
     "ERR_FAIL_FILE_DOES_NOT_EXIST", "ERR_TIMEOUT", "ERR_FILE_IO_ERROR", "CODE_255"}

\* data[1] of a NAK: an errno.
ErrnoValues ==
    {"EPERM", "ENOENT", "EIO", "EACCES", "EEXIST", "ENOTDIR", "EINVAL", "ENOSPC"}

\* A NAK payload is at hand, nothing else has happened.
InitNak ==
    /\ _work_queue = <<>>
    /\ _seq_number = 0
    /\ _session = 0
    /\ _curr_op = "CMD_NONE"
    /\ timer_armed = FALSE
    /\ nextId = 1
    /\ ops = [i \in Ids |-> ""]
    /\ \E d \in ServerResults \X ErrnoValues :
         ev = Event("nak", Nak("CMD_NONE", 0, d), TRUE)
    /\ out = <<>>
    /\ cbs = <<>>
    /\ termCount = [i \in Ids |-> 0]
    /\ sentAny = [i \in Ids |-> FALSE]
    /\ lastFrameOf = [i \in Ids |-> NoFrame]
    /\ txCount = [i \in Ids |-> 0]
    /\ accepted = [i \in Ids |-> -1]
    /\ nreq = 0
    /\ lastSeq = [any |-> -1, new |-> -1]
    /\ lastNext = [i \in Ids |-> -1]
    /\ net = EmptyLink
    /\ intact = [i \in Ids |-> TRUE]

\* result_from_nak(payload), its result handed to a callback.
result_from_nak_call ==
    /\ ev.type = "nak"
    /\ cbs = <<>>
    /\ cbs' = <<[id |-> 1, result |-> result_from_nak(ev.p), bytes |-> 0, total |-> 0,
                 direct |-> TRUE]>>
    /\ UNCHANGED <<_work_queue, _seq_number, _session, _curr_op, timer_armed, nextId,
                   ops, ev, out, termCount, sentAny, lastFrameOf, txCount, accepted,
                   nreq, lastSeq, lastNext, net, intact>>

NextNak == result_from_nak_call

SpecNak == InitNak /\ [][NextNak]_vars

(* ------------------- seq_lt on pairs of 16-bit values ------------------ *)

\* Values of a and b: the ends and the middle of the 16-bit range, so that
\* the differences 32766 .. 32769 and 65535 occur.
SeqSamples == {0, 1, 2, 32766, 32767, 32768, 32769, 65533, 65534, 65535}

InitSeqLt ==
    /\ _work_queue = <<>>
    /\ _seq_number = 0
    /\ _session = 0
    /\ _curr_op = "CMD_NONE"
    /\ timer_armed = FALSE
    /\ nextId = 1
    /\ ops = [i \in Ids |-> ""]
    /\ \E a \in SeqSamples, b \in SeqSamples :
         ev = Called("seq_lt", [a |-> a, b |-> b])
    /\ out = <<>>
    /\ cbs = <<>>
    /\ termCount = [i \in Ids |-> 0]
    /\ sentAny = [i \in Ids |-> FALSE]
    /\ lastFrameOf = [i \in Ids |-> NoFrame]
    /\ txCount = [i \in Ids |-> 0]
    /\ accepted = [i \in Ids |-> -1]
    /\ nreq = 0
    /\ lastSeq = [any |-> -1, new |-> -1]
    /\ lastNext = [i \in Ids |-> -1]
    /\ net = EmptyLink
    /\ intact = [i \in Ids |-> TRUE]

\* seq_lt(a, b) and seq_lt(b, a) are computed.
seq_lt_call ==
    /\ ev.type = "seq_lt"
    /\ ev' = Called("seq_lt returned",
                    [a |-> ev.arg.a, b |-> ev.arg.b,
                     ab |-> seq_lt(ev.arg.a, ev.arg.b),
                     ba |-> seq_lt(ev.arg.b, ev.arg.a)])
    /\ UNCHANGED <<_work_queue, _seq_number, _session, _curr_op, timer_armed, nextId,
                   ops, out, cbs, termCount, sentAny, lastFrameOf, txCount, accepted,
                   nreq, lastSeq, lastNext, net, intact>>

NextSeqLt == seq_lt_call

SpecSeqLt == InitSeqLt /\ [][NextSeqLt]_vars

(* --------- a download from a server that answers every request -------- *)

\* Sizes of the remote file (50 in the test): one READ_FILE up to 239 bytes,
\* two from 240 on.
RemoteSizes == {1, 50, 239, 240, 478}

\* _seq_number when the download is requested: a fresh engine, and engines
\* whose counter wraps during the download.
StartSeqs == {0, SeqBeforeWrap, SeqMod - 1}

InitDownload == InitMembers /\ _seq_number \in StartSeqs /\ net = EmptyLink

\* do_work while the local file of the download can be opened for writing.
do_work_sink_opens ==
    /\ CanSend
    /\ \E fs \in {f \in StartInputs : f.open_ok} :
         Commit(do_work_step(Begin, fs.open_ok, fs), Called("do_work", fs))

\* The ACK of the server to the request in flight: the file size to
\* OPEN_FILE_RO, the bytes asked for to READ_FILE, no data to TERMINATE_SESSION.
ServerAcks ==
    LET req == Head(_work_queue).payload
    IN IF req.opcode = "CMD_OPEN_FILE_RO"
       THEN {Ack(req.opcode, ReplySeq, <<4, n>>) : n \in RemoteSizes}
       ELSE IF req.opcode = "CMD_READ_FILE"
       THEN {Ack(req.opcode, ReplySeq, <<req.size, 0>>)}
       ELSE {Ack(req.opcode, ReplySeq, <<0, 0>>)}

\* The answer arrives before the timer fires, and the local write succeeds.
server_answers ==
    /\ CanSend
    /\ _work_queue # <<>>
    /\ Head(_work_queue).started
    /\ \E p \in ServerAcks :
         Commit(process_step(Begin, p, TRUE), Event("recv", p, TRUE))

NextDownload ==
    \/ download_async
    \/ do_work_sink_opens
    \/ server_answers

SpecDownload == InitDownload /\ [][NextDownload]_vars

(* -------------- engine, link and server: loss and delay --------------- *)

\* Sizes of the remote file: no READ_FILE, two, three.
LinkRemoteSizes == {0, 240, 479}

\* Transmissions of one request (the request or its response) the link may
\* lose: one less than the transmissions the engine makes.
LossBudget == RETRIES - 1

InitLink ==
    /\ InitMembers
    /\ _seq_number = 0
    /\ \E n \in LinkRemoteSizes : net = [EmptyLink EXCEPT !.remote = n]

\* The frames of the step are on the link; a request sent for the first time
\* starts a new count of losses.
Transmit(st) ==
    [st EXCEPT !.net.req = @ \cup {st.out[k].payload : k \in DOMAIN st.out},
               !.net.lost = IF \E k \in DOMAIN st.out : st.out[k].ctx # "timeout"
                            THEN 0 ELSE @]

\* The server's answer to the request r: an ACK with seq_number + 1, with the
\* file size for OPEN_FILE_RO and with the bytes at r.offset for READ_FILE.
ServerResponse(r) ==
    LET ack == [NoPayload EXCEPT !.target_system = "own", !.target_component = "own",
                                 !.opcode = "RSP_ACK", !.req_opcode = r.opcode,
                                 !.seq_number = (r.seq_number + 1) % SeqMod,
                                 !.session = RxSession]
    IN IF r.opcode = "CMD_OPEN_FILE_RO"
       THEN [ack EXCEPT !.size = 4, !.data_u32 = net.remote]
       ELSE IF r.opcode = "CMD_READ_FILE"
       THEN [ack EXCEPT !.size = r.size, !.offset = r.offset]
       ELSE ack

\* upload_async with a remote path upload_start accepts.
upload_async_valid ==
    /\ CanRequest
    /\ \E pathlen \in {n \in PathLens : n < max_data_length} :
         Commit([Requested("upload") EXCEPT
                    !.q = push_back(@, NewWork(nextId, "upload", pathlen))],
                Event("upload_async", NoPayload, TRUE))

\* do_work with the local file at hand; what it sends goes onto the link.
do_work_sends ==
    /\ _work_queue # <<>>
    /\ ~Head(_work_queue).started
    /\ \E fs \in {f \in StartInputs : f.open_ok} :
         Commit(Transmit(do_work_step(Begin, fs.open_ok, fs)), Called("do_work", fs))

\* The server receives a request and answers it.
server_receives ==
    \E r \in net.req :
       Commit([Begin EXCEPT !.net.req = @ \ {r}, !.net.rsp = @ \cup {ServerResponse(r)}],
              Event("server", NoPayload, TRUE))

\* A response reaches process_mavlink_ftp_message; local I/O succeeds.
response_arrives ==
    \E p \in net.rsp :
       Commit(Transmit(process_step([Begin EXCEPT !.net.rsp = @ \ {p}], p, TRUE)),
              Event("recv", p, TRUE))

\* The link loses a request or a response.
transmission_lost ==
    /\ net.lost < LossBudget
    /\ \E m \in net.req \cup net.rsp :
         Commit([Begin EXCEPT !.net.req = @ \ {m}, !.net.rsp = @ \ {m}, !.net.lost = @ + 1],
                Event("lost", NoPayload, TRUE))

\* The timer fires after what was in flight has been lost.
timeout_after_loss ==
    /\ timer_armed
    /\ net.req = {}
    /\ net.rsp = {}
    /\ Commit(Transmit(timeout_step([Begin EXCEPT !.timer = FALSE])),
              Event("timeout", NoPayload, TRUE))

\* The timer fires although the response is still on its way.
timeout_before_response ==
    /\ timer_armed
    /\ Commit(Transmit(timeout_step([Begin EXCEPT !.timer = FALSE])),
              Event("timeout", NoPayload, TRUE))

NextLossy ==
    \/ download_async
    \/ upload_async_valid
    \/ do_work_sends
    \/ server_receives
    \/ response_arrives
    \/ transmission_lost
    \/ timeout_after_loss

\* do_work ticks, the timer, the server and the link keep going.
SpecLossy ==
    /\ InitLink
    /\ [][NextLossy]_vars
    /\ WF_vars(do_work_sends)
    /\ WF_vars(server_receives)
    /\ WF_vars(response_arrives)
    /\ WF_vars(timeout_after_loss)

\* The one download whose responses come late.
download_async_once == nextId = 1 /\ download_async

NextLate ==
    \/ download_async_once
    \/ do_work_sends
    \/ server_receives
    \/ response_arrives
    \/ timeout_before_response

SpecLate == InitLink /\ [][NextLate]_vars

(* ------ reset_async while the inbound handler answers a response ------ *)

\* The two `_seq_number++` of handlers that run at the same time, one under
\* the queue mutex and one under _curr_op_mutex: one after the other in
\* either order, or both reading the counter before either writes it.
RaceOutcomes == {"queue_first", "entry_first", "same_value"}

\* reset_async on one thread while process_mavlink_ftp_message handles the
\* ACK of the request in flight on another.
reset_async_during_answer ==
    /\ CanRequest /\ CanSend
    /\ _work_queue # <<>>
    /\ Head(_work_queue).started
    /\ \E p \in ServerAcks, outcome \in RaceOutcomes :
         LET R == Requested("reset")
             A == process_step(R, p, TRUE)
             st == IF outcome = "queue_first" THEN reset_step(A, nextId)
                   ELSE IF outcome = "entry_first"
                   THEN process_step(reset_step(R, nextId), p, TRUE)
                   ELSE [reset_step([A EXCEPT !.seq = R.seq], nextId) EXCEPT
                            !.seq = IF A.seq = R.seq THEN @ ELSE A.seq]
         IN Commit(st, Event("recv", p, TRUE))

NextRace ==
    \/ download_async
    \/ do_work_sink_opens
    \/ server_answers
    \/ reset_async
    \/ reset_async_during_answer

SpecRace == InitDownload /\ [][NextRace]_vars

(* ------------------------------ claims -------------------------------- *)

\* Nothing is left that could invoke a callback of an operation requested
\* earlier: the queue is empty and no timeout handler is registered, so
\* do_work, the inbound handler and the timer return at once.
AtRest == _work_queue = <<>> /\ ~timer_armed

QueuedKinds == {"download", "upload"}

\* C1: every operation requested through a public *_async entry point gets
\* its terminal callback exactly once: never twice, and once the engine is
\* at rest every requested operation has had it.
C1_EveryOperationCompletesOnce ==
    \A i \in Ids :
        /\ termCount[i] <= 1
        /\ (ops[i] # "" /\ AtRest) => termCount[i] = 1

\* C2: at most one work item of the queue has started = true, and if one
\* has, it is the head of the queue.
C2_OnlyHeadStarted ==
    \A k \in DOMAIN _work_queue : _work_queue[k].started => k = 1

\* A started head with an item waiting behind it.
C2_Witness ==
    /\ Len(_work_queue) >= 2
    /\ _work_queue[1].started
    /\ ~_work_queue[2].started

\* C3: operations run in the order of their requests: no frame of an
\* operation B is sent before the terminal callback of an operation A that
\* was enqueued before B, and A's terminal callback precedes B's.
C3_EnqueueOrder ==
    \A a \in Ids, b \in Ids :
        (a < b /\ ops[a] \in QueuedKinds) =>
            /\ sentAny[b] => termCount[a] > 0
            /\ (ops[b] \in QueuedKinds /\ termCount[b] > 0) => termCount[a] > 0

\* C4: no public *_async entry point sends a frame: every frame is sent by
\* do_work, by the inbound-message handler or by the timer callback.
C4_EntryPointsDoNotSend ==
    \A k \in DOMAIN out : out[k].ctx \in {"do_work", "recv", "timeout"}

\* C5: an inbound payload whose seq_number is the one of the last response
\* the head item accepted causes no callback, no send, no timer change and
\* no change of the queue or of its items.
C5_DuplicateHasNoEffect ==
    [][(/\ ev'.type = "recv"
        /\ _work_queue # <<>>
        /\ accepted[Head(_work_queue).id] = ev'.p.seq_number)
       => (/\ cbs' = <<>>
           /\ out' = <<>>
           /\ timer_armed' = timer_armed
           /\ _work_queue' = _work_queue)]_vars

\* C6: the duplicate test recognises the last accepted response of the head
\* item whatever its seq_number is, 0 (the answer to request 65535) included.
C6_DuplicateDetectedAcrossWrap ==
    (_work_queue # <<>> /\ accepted[Head(_work_queue).id] # -1)
        => IsDuplicate(Head(_work_queue), accepted[Head(_work_queue).id])

\* C7: an inbound payload whose req_opcode differs from the head item's
\* last_opcode changes nothing: no callback, no send, no pop, and the head
\* item (last_seq_number, retries, transfer counters) stays as it is.
C7_OtherOpcodeHasNoEffect ==
    [][(/\ ev'.type = "recv"
        /\ _work_queue # <<>>
        /\ ev'.p.req_opcode # Head(_work_queue).last_opcode)
       => (/\ cbs' = <<>>
           /\ out' = <<>>
           /\ timer_armed' = timer_armed
           /\ _seq_number' = _seq_number
           /\ _work_queue' = _work_queue)]_vars

\* A well-addressed response to another request has just been handed to the
\* engine while the head item waits for its answer.
C7_Witness ==
    /\ ev.type = "recv"
    /\ ~WrongTarget(ev.p)
    /\ ev.p.size <= max_data_length
    /\ _work_queue # <<>>
    /\ Head(_work_queue).started
    /\ timer_armed
    /\ ev.p.req_opcode # Head(_work_queue).last_opcode

\* C8: the timer fire that exhausts the retries of the head item completes
\* it with Timeout, removes it from the queue and sends nothing; and no
\* frame is sent for an operation after its terminal callback.
C8_TimeoutEndsItem ==
    [][/\ (/\ ev'.type = "timeout"
           /\ _work_queue # <<>>
           /\ Head(_work_queue).retries = 1)
          => (/\ Len(cbs') = 1
              /\ cbs'[1].id = Head(_work_queue).id
              /\ cbs'[1].result = "Timeout"
              /\ _work_queue' = Tail(_work_queue)
              /\ out' = <<>>)
       /\ \A k \in DOMAIN out' : termCount[out'[k].owner] = 0]_vars

\* An item whose request was sent has just been completed with Timeout.
C8_Witness ==
    /\ ev.type = "timeout"
    /\ Len(cbs) = 1
    /\ cbs[1].result = "Timeout"
    /\ termCount[cbs[1].id] = 1
    /\ txCount[cbs[1].id] > 1
    /\ lastFrameOf[cbs[1].id].opcode \in {"CMD_OPEN_FILE_RO", "CMD_READ_FILE"}

\* C9: a request that gets no response has been transmitted RETRIES + 1
\* times (5 times) when its item completes with Timeout.
C9_TransmittedRetriesPlusOne ==
    \A k \in DOMAIN cbs :
        (/\ cbs[k].result = "Timeout"
         /\ lastFrameOf[cbs[k].id].opcode \notin {"NO_FRAME", "CMD_NONE"})
        => txCount[cbs[k].id] = RETRIES + 1

\* C10: every frame the timer path sends is the last request sent for the
\* head item, unchanged, and a timer fire consumes no sequence number.
C10_TimerResendsLastRequest ==
    [][ev'.type = "timeout"
       => /\ _seq_number' = _seq_number
          /\ \A k \in DOMAIN out' : out'[k].payload = lastFrameOf[out'[k].owner]]_vars

C12_NakEndsItem ==
    [][(/\ ev'.type = "recv"
        /\ ev'.p.opcode = "RSP_NAK"
        /\ Passes(ev'.p))
       => (/\ cbs' = <<[id |-> Head(_work_queue).id, result |-> result_from_nak(ev'.p),
                        bytes |-> 0, total |-> 0, direct |-> TRUE]>>
           /\ timer_armed' = FALSE
           /\ _work_queue' = Tail(_work_queue)
           /\ out' = <<>>)]_vars

\* A NAK has just ended an item that was reading or writing.
C12_Witness ==
    /\ ev.type = "recv"
    /\ ev.p.opcode = "RSP_NAK"
    /\ Len(cbs) = 1
    /\ cbs[1].result = "FileDoesNotExist"
    /\ lastFrameOf[cbs[1].id].opcode \in {"CMD_READ_FILE", "CMD_WRITE_FILE"}
    /\ ~timer_armed
    /\ \A k \in DOMAIN _work_queue : _work_queue[k].id # cbs[1].id

\* C13: a NAK with ERR_EOF that answers a READ_FILE request while
\* bytes_transferred < file_size completes the download with Success.
C13_EofNakIsSuccess ==
    [][(/\ ev'.type = "recv"
        /\ ev'.p.opcode = "RSP_NAK"
        /\ ev'.p.data0 = "ERR_EOF"
        /\ Passes(ev'.p)
        /\ Head(_work_queue).kind = "download"
        /\ Head(_work_queue).last_opcode = "CMD_READ_FILE"
        /\ Head(_work_queue).bytes_transferred < Head(_work_queue).file_size)
       => (/\ Len(cbs') = 1
           /\ cbs'[1].id = Head(_work_queue).id
           /\ cbs'[1].result = "Success")]_vars

\* The table of client results: the server codes that have an entry.
ClientResultOf ==
    [code \in {"SUCCESS", "ERR_TIMEOUT", "ERR_FILE_IO_ERROR", "ERR_FAIL_FILE_EXISTS",
               "ERR_FAIL_FILE_PROTECTED", "ERR_UNKOWN_COMMAND",
               "ERR_FAIL_FILE_DOES_NOT_EXIST"} |->
        CASE code = "SUCCESS" -> "Success"
          [] code = "ERR_TIMEOUT" -> "Timeout"
          [] code = "ERR_FILE_IO_ERROR" -> "FileIoError"
          [] code = "ERR_FAIL_FILE_EXISTS" -> "FileExists"
          [] code = "ERR_FAIL_FILE_PROTECTED" -> "FileProtected"
          [] code = "ERR_UNKOWN_COMMAND" -> "Unsupported"
          [] code = "ERR_FAIL_FILE_DOES_NOT_EXIST" -> "FileDoesNotExist"]

\* C14: the client result of a NAK is the table entry of data[0], but
\* FileDoesNotExist for ERR_FAIL_ERRNO with ENOENT in data[1], and
\* ProtocolError for a code without an entry.
C14_NakResultFollowsTable ==
    (ev.type = "nak" /\ cbs # <<>>) =>
        cbs[1].result =
            IF ev.p.data0 = "ERR_FAIL_ERRNO" /\ ev.p.data1 = "ENOENT" THEN "FileDoesNotExist"
            ELSE IF ev.p.data0 \in DOMAIN ClientResultOf THEN ClientResultOf[ev.p.data0]
            ELSE "ProtocolError"

\* ERR_FAIL_ERRNO with ENOENT has been translated.
C14_Witness ==
    /\ ev.type = "nak"
    /\ ev.p.data0 = "ERR_FAIL_ERRNO"
    /\ ev.p.data1 = "ENOENT"
    /\ cbs # <<>>
    /\ cbs[1].result = "FileDoesNotExist"

\* C15: once the ACK of OPEN_FILE_RO or OPEN_FILE_WO is accepted, every
\* READ_FILE, WRITE_FILE and TERMINATE_SESSION request of the item carries
\* the session id of that ACK.
C15_RequestsCarryAckSession ==
    \A k \in DOMAIN _work_queue :
        _work_queue[k].last_opcode \in {"CMD_READ_FILE", "CMD_WRITE_FILE", "CMD_TERMINATE_SESSION"}
            => /\ _work_queue[k].payload.session = RxSession
               /\ lastFrameOf[_work_queue[k].id].session = RxSession

\* C16: an OPEN_FILE_RO ACK with file size 0 is answered by
\* TERMINATE_SESSION, no READ_FILE is ever sent for a file of size 0, and
\* the ACK of that TERMINATE_SESSION completes the download with Success.
C16_EmptyFileNoRead ==
    [][/\ (/\ ev'.type = "recv"
           /\ ev'.p.opcode = "RSP_ACK"
           /\ ev'.p.req_opcode = "CMD_OPEN_FILE_RO"
           /\ ev'.p.data_u32 = 0
           /\ Passes(ev'.p)
           /\ Head(_work_queue).kind = "download")
          => (/\ Len(out') = 1
              /\ out'[1].payload.opcode = "CMD_TERMINATE_SESSION"
              /\ cbs' = <<>>
              /\ _work_queue' # <<>>
              /\ Head(_work_queue').id = Head(_work_queue).id
              /\ Head(_work_queue').last_opcode = "CMD_TERMINATE_SESSION")
       /\ (/\ ev'.type = "recv"
           /\ ev'.p.opcode = "RSP_ACK"
           /\ ev'.p.req_opcode = "CMD_TERMINATE_SESSION"
           /\ Passes(ev'.p)
           /\ Head(_work_queue).kind = "download"
           /\ Head(_work_queue).file_size = 0)
          => (/\ Len(cbs') = 1
              /\ cbs'[1].id = Head(_work_queue).id
              /\ cbs'[1].result = "Success"
              /\ _work_queue' = Tail(_work_queue)
              /\ out' = <<>>)
       /\ \A k \in DOMAIN out' :
             (out'[k].payload.opcode = "CMD_READ_FILE" /\ out'[k].ctx = "recv")
                => Head(_work_queue').file_size > 0]_vars

\* The download of an empty file has just completed: its OPEN_FILE_RO was
\* answered with size 0, and the ACK of TERMINATE_SESSION gave Success.
C16_Witness ==
    /\ ev.type = "recv"
    /\ ev.p.req_opcode = "CMD_TERMINATE_SESSION"
    /\ Len(cbs) = 1
    /\ cbs[1].result = "Success"
    /\ ops[cbs[1].id] = "download"
    /\ lastFrameOf[cbs[1].id].opcode = "CMD_TERMINATE_SESSION"
    /\ nreq = 2

\* C17: the READ_FILE request of a download asks for
\* min(239, file_size - bytes_transferred) bytes at offset bytes_transferred
\* and is in flight only while bytes_transferred < file_size; the request is
\* TERMINATE_SESSION exactly when bytes_transferred >= file_size.
C17_ReadRequestsFollowProgress ==
    \A k \in DOMAIN _work_queue :
        LET w == _work_queue[k]
            left == w.file_size - w.bytes_transferred
        IN w.kind = "download" =>
            /\ w.last_opcode = "CMD_READ_FILE" =>
                  /\ w.bytes_transferred < w.file_size
                  /\ w.payload.opcode = "CMD_READ_FILE"
                  /\ w.payload.offset = w.bytes_transferred
                  /\ w.payload.size = (IF left < 239 THEN left ELSE 239)
                  /\ lastFrameOf[w.id] = w.payload
            /\ w.last_opcode = "CMD_TERMINATE_SESSION" =>
                  /\ w.bytes_transferred >= w.file_size
                  /\ w.payload.opcode = "CMD_TERMINATE_SESSION"
                  /\ lastFrameOf[w.id] = w.payload
            /\ w.last_opcode \in {"CMD_NONE", "CMD_OPEN_FILE_RO", "CMD_READ_FILE",
                                  "CMD_TERMINATE_SESSION"}

\* A file of exactly 239 bytes has been read in one piece and the session is
\* being terminated without a further READ_FILE.
C17_Witness ==
    /\ _work_queue # <<>>
    /\ Head(_work_queue).kind = "download"
    /\ Head(_work_queue).file_size = 239
    /\ Head(_work_queue).bytes_transferred = 239
    /\ Head(_work_queue).last_opcode = "CMD_TERMINATE_SESSION"
    /\ ev.type = "recv"
    /\ ev.p.req_opcode = "CMD_READ_FILE"

\* C18: a download or upload gets Success only in the step that accepts the
\* ACK of its TERMINATE_SESSION request, which was sent with
\* bytes_transferred >= file_size; no NAK and no other ACK gives Success.
C18_SuccessOnlyOnTerminateAck ==
    [][\A k \in DOMAIN cbs' :
          (cbs'[k].result = "Success" /\ ops'[cbs'[k].id] \in QueuedKinds)
          => (/\ ev'.type = "recv"
              /\ ev'.p.opcode = "RSP_ACK"
              /\ ev'.p.req_opcode = "CMD_TERMINATE_SESSION"
              /\ _work_queue # <<>>
              /\ Head(_work_queue).id = cbs'[k].id
              /\ Head(_work_queue).last_opcode = "CMD_TERMINATE_SESSION"
              /\ lastFrameOf[cbs'[k].id].opcode = "CMD_TERMINATE_SESSION"
              /\ Head(_work_queue).bytes_transferred >= Head(_work_queue).file_size)]_vars

\* C19: an upload sends OPEN_FILE_WO first, then WRITE_FILE requests, each at
\* the offset that is the sum of the sizes written before, of 1 to 239 bytes
\* and never past the end of the file, then TERMINATE_SESSION once all N
\* bytes are written; the progress callbacks report values that never
\* decrease, and N with the TERMINATE_SESSION request.
C19_UploadSequence ==
    [][/\ \A k \in DOMAIN _work_queue' :
             LET w == _work_queue'[k]
             IN w.kind = "upload" =>
                 /\ w.last_opcode \in {"CMD_NONE", "CMD_OPEN_FILE_WO", "CMD_WRITE_FILE",
                                       "CMD_TERMINATE_SESSION"}
                 /\ w.last_opcode = "CMD_WRITE_FILE" =>
                       /\ w.payload.size >= 1
                       /\ w.payload.size <= 239
                       /\ w.payload.offset % 239 = 0
                       /\ w.payload.offset + w.payload.size = w.bytes_transferred
                       /\ w.bytes_transferred <= w.file_size
                 /\ w.last_opcode = "CMD_TERMINATE_SESSION" =>
                       w.bytes_transferred = w.file_size
       /\ \A k \in DOMAIN out' :
             LET f == out'[k]
             IN (ops'[f.owner] = "upload" /\ f.ctx # "timeout") =>
                 /\ f.ctx = "do_work" <=> f.payload.opcode = "CMD_OPEN_FILE_WO"
                 /\ f.ctx = "recv" =>
                       /\ Head(_work_queue).id = f.owner
                       /\ Head(_work_queue).last_opcode \in {"CMD_OPEN_FILE_WO", "CMD_WRITE_FILE"}
                       /\ f.payload.opcode \in {"CMD_WRITE_FILE", "CMD_TERMINATE_SESSION"}
                       /\ f.payload.opcode = "CMD_WRITE_FILE" =>
                             f.payload.offset = Head(_work_queue).bytes_transferred
                       /\ f.payload.opcode = "CMD_TERMINATE_SESSION" =>
                             Head(_work_queue).bytes_transferred = Head(_work_queue).file_size
       /\ \A k \in DOMAIN cbs' :
             (ops'[cbs'[k].id] = "upload" /\ cbs'[k].result = "Next") =>
                 /\ Head(_work_queue).id = cbs'[k].id
                 /\ cbs'[k].bytes >= Head(_work_queue).bytes_transferred
                 /\ cbs'[k].bytes <= cbs'[k].total
                 /\ cbs'[k].total = Head(_work_queue).file_size
                 /\ Head(_work_queue').last_opcode = "CMD_TERMINATE_SESSION" =>
                       cbs'[k].bytes = cbs'[k].total]_vars

\* A file of 240 bytes has been written as 239 + 1 bytes and the session is
\* being terminated.
C19_Witness ==
    /\ _work_queue # <<>>
    /\ Head(_work_queue).kind = "upload"
    /\ Head(_work_queue).file_size = 240
    /\ Head(_work_queue).bytes_transferred = 240
    /\ Head(_work_queue).last_opcode = "CMD_TERMINATE_SESSION"
    /\ Len(cbs) = 1
    /\ cbs[1].result = "Next"
    /\ cbs[1].bytes = 240
    /\ nreq = 4

\* C20: the bytes_transferred of an upload, and of its progress callbacks,
\* is at most the number of bytes whose WRITE_FILE has been acknowledged:
\* while a WRITE_FILE is in flight, the bytes before its offset.
C20_UploadCountsAcknowledgedBytes ==
    /\ \A k \in DOMAIN _work_queue :
          LET w == _work_queue[k]
          IN (w.kind = "upload" /\ w.last_opcode = "CMD_WRITE_FILE")
                => w.bytes_transferred <= w.payload.offset
    /\ \A k \in DOMAIN cbs :
          (/\ cbs[k].result = "Next"
           /\ _work_queue # <<>>
           /\ Head(_work_queue).id = cbs[k].id
           /\ Head(_work_queue).kind = "upload"
           /\ Head(_work_queue).last_opcode = "CMD_WRITE_FILE")
          => cbs[k].bytes <= Head(_work_queue).payload.offset

\* C21: when the start of an item fails locally (upload: the local file is
\* missing, FileDoesNotExist, or does not open, FileIoError; download: the
\* local sink does not open, FileIoError), the item gets that result and is
\* removed, no frame is sent, the timer is not armed by the step and
\* _seq_number is unchanged.
C21_LocalStartFailure ==
    [][(/\ ev'.type = "do_work"
        /\ _work_queue # <<>>
        /\ ~Head(_work_queue).started
        /\ ~(ev'.arg.exists /\ ev'.arg.open_ok))
       => (/\ cbs' = <<[id |-> Head(_work_queue).id,
                        result |-> IF Head(_work_queue).kind = "upload" /\ ~ev'.arg.exists
                                   THEN "FileDoesNotExist" ELSE "FileIoError",
                        bytes |-> 0, total |-> 0, direct |-> TRUE]>>
           /\ _work_queue' = Tail(_work_queue)
           /\ out' = <<>>
           /\ timer_armed' = timer_armed
           /\ _seq_number' = _seq_number)]_vars

\* The local file of an upload was missing when do_work started it.
C21_Witness ==
    /\ ev.type = "do_work"
    /\ ~ev.arg.exists
    /\ Len(cbs) = 1
    /\ cbs[1].result = "FileDoesNotExist"
    /\ ops[cbs[1].id] = "upload"
    /\ ~sentAny[cbs[1].id]

\* The step rejects operation i with InvalidParameter and sends nothing.
RejectedInvalid(i) ==
    /\ Len(cbs') = 1
    /\ cbs'[1].id = i
    /\ cbs'[1].result = "InvalidParameter"
    /\ out' = <<>>

\* The step sends the request of operation i and rejects nothing.
AcceptedPath(i) ==
    /\ Len(out') = 1
    /\ out'[1].owner = i
    /\ \A k \in DOMAIN cbs' : cbs'[k].result # "InvalidParameter"

\* C22: a path of 238 characters or less is accepted and a path of 239 or
\* more is rejected with InvalidParameter before any frame is sent, for the
\* remote path of a download, the remote file path of an upload, the path of
\* list_directory and the path of the crc32 request; no frame has size > 239.
C22_PathLengthLimit ==
    [][/\ \A k \in DOMAIN out' : out'[k].payload.size <= 239
       /\ (/\ ev'.type = "do_work"
           /\ _work_queue # <<>>
           /\ ~Head(_work_queue).started
           /\ ev'.arg.exists /\ ev'.arg.open_ok)
          => IF Head(_work_queue).pathlen >= 239
             THEN RejectedInvalid(Head(_work_queue).id)
             ELSE AcceptedPath(Head(_work_queue).id)
       /\ (ev'.type = "list_directory_async" /\ _curr_op = "CMD_NONE")
          => IF ev'.arg >= 239 THEN RejectedInvalid(nextId) ELSE AcceptedPath(nextId)
       /\ (/\ ev'.type = "are_files_identical_async"
           /\ ev'.arg[1] = "Success"
           /\ _curr_op = "CMD_NONE")
          => IF ev'.arg[2] >= 239 THEN RejectedInvalid(nextId) ELSE AcceptedPath(nextId)]_vars

\* C23: rename_async with len(from) + len(to) > 237 calls back with
\* InvalidParameter before it returns and sends nothing, whatever was
\* requested before; with len(from) + len(to) <= 237 it is not rejected
\* with InvalidParameter.
C23_RenameLengthLimit ==
    [][ev'.type = "rename_async"
       => IF ev'.arg[1] + ev'.arg[2] > 237
          THEN RejectedInvalid(nextId)
          ELSE \A k \in DOMAIN cbs' : cbs'[k].result # "InvalidParameter"]_vars

\* The whole-number percentage of a progress report.
Percentage(bytes, total) == IF total = 0 THEN 0 ELSE (100 * bytes) \div total

\* C24: a Next callback of a download or upload is emitted only when its
\* whole-number percentage differs from the one of the previous Next
\* callback of the item.
C24_ProgressOnPercentChange ==
    [][\A k \in DOMAIN cbs' :
          (/\ cbs'[k].result = "Next"
           /\ ops'[cbs'[k].id] \in QueuedKinds
           /\ lastNext[cbs'[k].id] # -1)
          => Percentage(cbs'[k].bytes, cbs'[k].total)
                 # Percentage(lastNext[cbs'[k].id], cbs'[k].total)]_vars

\* C25: no callback is executed by the inbound-message handler, the timer
\* handler or do_work themselves, which hold the queue mutex: each is handed
\* to call_user_callback.
C25_CallbacksNotUnderMutex ==
    ev.type \in {"recv", "timeout", "do_work"}
        => \A k \in DOMAIN cbs : ~cbs[k].direct

\* The step leaves the engine as it was and produces nothing.
Dropped ==
    /\ cbs' = <<>>
    /\ out' = <<>>
    /\ _work_queue' = _work_queue
    /\ timer_armed' = timer_armed
    /\ _seq_number' = _seq_number
    /\ _curr_op' = _curr_op

\* C26 as stated: an inbound frame whose target system or target component
\* is not the engine's own id, 0 included, is dropped with no state change.
C26_NotOwnTargetDropped ==
    [][(/\ ev'.type = "recv"
        /\ (ev'.p.target_system # "own" \/ ev'.p.target_component # "own"))
       => Dropped]_vars

\* C26, amended: an inbound frame whose target system or target component
\* is neither the engine's own id nor 0 is dropped with no state change; a
\* target id of 0 is accepted like the own id.
C26_OtherTargetDropped ==
    [][(/\ ev'.type = "recv"
        /\ (\/ ev'.p.target_system \notin {"own", "zero"}
            \/ ev'.p.target_component \notin {"own", "zero"}))
       => Dropped]_vars

\* A NAK that answers the request in flight, but is addressed to another
\* component, has been handed to the engine.
C26_Witness ==
    /\ ev.type = "recv"
    /\ ev.p.target_system = "own"
    /\ ev.p.target_component = "other"
    /\ ev.p.opcode = "RSP_NAK"
    /\ _work_queue # <<>>
    /\ Head(_work_queue).started
    /\ ev.p.req_opcode = Head(_work_queue).last_opcode
    /\ ev.p.seq_number # Head(_work_queue).last_seq_number
    /\ timer_armed

\* C27: the step in which the inbound handler or the timer completes an item
\* (Success, the result of a NAK, FileIoError during the transfer, Timeout)
\* leaves the timer not armed, and the timer gets armed only by a step that
\* sends a request.
C27_TimerStoppedOnCompletion ==
    [][/\ (/\ ev'.type \in {"recv", "timeout"}
           /\ \E k \in DOMAIN cbs' :
                 cbs'[k].result # "Next" /\ ops'[cbs'[k].id] \in QueuedKinds)
          => ~timer_armed'
       /\ (~timer_armed /\ timer_armed') => out' # <<>>]_vars

\* A transfer has just ended with FileIoError on an ACK, its request having
\* been in flight with the timer armed.
C27_Witness ==
    /\ ev.type = "recv"
    /\ ev.p.opcode = "RSP_ACK"
    /\ Len(cbs) = 1
    /\ cbs[1].result = "FileIoError"
    /\ sentAny[cbs[1].id]
    /\ ~timer_armed

\* The inbound handler has just run on an ACK or NAK that answers the request
\* the entry point of opcode op sent directly.
AnswerTo(op) ==
    /\ _curr_op = op
    /\ ev'.type = "recv"
    /\ ev'.p.req_opcode = op
    /\ ev'.p.opcode \in {"RSP_ACK", "RSP_NAK"}

\* The handler has delivered a terminal callback of an operation of this kind.
Completes(kind, results) ==
    \E k \in DOMAIN cbs' : ops'[cbs'[k].id] = kind /\ cbs'[k].result \in results

\* C28: an ACK with entries to the LIST_DIRECTORY request makes the engine send
\* LIST_DIRECTORY again with an offset above 0 (the entries so far), and an ACK
\* without entries or a NAK ERR_EOF completes list_directory_async with Success.
C28_ListDirectoryContinues ==
    [][AnswerTo("CMD_LIST_DIRECTORY") =>
          /\ (ev'.p.opcode = "RSP_ACK" /\ ev'.p.size > 0) =>
                \E k \in DOMAIN out' :
                   out'[k].payload.opcode = "CMD_LIST_DIRECTORY" /\ out'[k].payload.offset > 0
          /\ (\/ ev'.p.opcode = "RSP_ACK" /\ ev'.p.size = 0
              \/ ev'.p.opcode = "RSP_NAK" /\ ev'.p.data0 = "ERR_EOF") =>
                Completes("list_directory", {"Success"})]_vars

\* The opcode of the one request of each single-request entry point.
SingleRequestOpcode ==
    [create_directory_async |-> "CMD_CREATE_DIRECTORY",
     remove_directory_async |-> "CMD_REMOVE_DIRECTORY",
     remove_file_async |-> "CMD_REMOVE_FILE",
     rename_async |-> "CMD_RENAME",
     reset_async |-> "CMD_RESET_SESSIONS"]

SingleRequestKind ==
    [CMD_CREATE_DIRECTORY |-> "create_directory", CMD_REMOVE_DIRECTORY |-> "remove_directory",
     CMD_REMOVE_FILE |-> "remove_file", CMD_RENAME |-> "rename", CMD_RESET_SESSIONS |-> "reset"]

\* C29: create_directory_async, remove_directory_async, remove_file_async,
\* rename_async and reset_async, unless they reject the call at once, send
\* exactly one request with their opcode; the ACK of that request completes
\* the operation with Success, its NAK with a result other than Success or Next.
C29_SingleRequestOperations ==
    [][/\ (ev'.type \in DOMAIN SingleRequestOpcode /\ cbs' = <<>>) =>
            /\ Len(out') = 1
            /\ out'[1].payload.opcode = SingleRequestOpcode[ev'.type]
       /\ \A op \in DOMAIN SingleRequestKind :
            AnswerTo(op) =>
               IF ev'.p.opcode = "RSP_ACK"
               THEN Completes(SingleRequestKind[op], {"Success"})
               ELSE \E k \in DOMAIN cbs' :
                       /\ ops'[cbs'[k].id] = SingleRequestKind[op]
                       /\ cbs'[k].result \notin {"Success", "Next"}]_vars

\* The opcodes that may follow the opcode of the item's last request.
FollowsInDownload(prev) ==
    IF prev = "NO_FRAME" THEN {"CMD_OPEN_FILE_RO"}
    ELSE IF prev = "CMD_OPEN_FILE_RO" THEN {"CMD_READ_FILE"}
    ELSE IF prev = "CMD_READ_FILE" THEN {"CMD_READ_FILE", "CMD_TERMINATE_SESSION"}
    ELSE {}

\* C30: with a server that acknowledges every request and with nothing lost,
\* a download of a file of size > 0 sends OPEN_FILE_RO, then READ_FILE once or
\* more, then TERMINATE_SESSION, each with the seq_number after the previous
\* one; its callbacks are Next, once or more, the last one with all bytes,
\* then Success exactly once on the ACK of TERMINATE_SESSION; every answer
\* leads to the next request or to Success, and at rest every download has
\* had its Success.
C30_DownloadHappyPath ==
    /\ [][/\ Len(out') <= 1
          /\ \A k \in DOMAIN out' :
               LET f == out'[k].payload
               IN /\ f.opcode \in FollowsInDownload(lastFrameOf[out'[k].owner].opcode)
                  /\ lastSeq.any # -1 =>
                        /\ f.seq_number = (lastSeq.any + 1) % SeqMod
                        /\ seq_lt(lastSeq.any, f.seq_number)
          /\ Len(cbs') <= 1
          /\ \A k \in DOMAIN cbs' :
               /\ cbs'[k].result \in {"Next", "Success"}
               /\ termCount[cbs'[k].id] = 0
               /\ cbs'[k].result = "Success" =>
                     /\ ev'.p.req_opcode = "CMD_TERMINATE_SESSION"
                     /\ lastNext[cbs'[k].id] = Head(_work_queue).file_size
                     /\ lastNext[cbs'[k].id] > 0
          /\ ev'.type = "recv" =>
               \/ out' # <<>>
               \/ \E k \in DOMAIN cbs' : cbs'[k].result = "Success"]_vars
    /\ [](AtRest => \A i \in Ids : ops[i] = "download" => termCount[i] = 1)

\* A download of a file that takes two READ_FILE requests has just ended
\* with Success.
C30_Witness ==
    /\ ev.type = "recv"
    /\ ev.p.req_opcode = "CMD_TERMINATE_SESSION"
    /\ Len(cbs) = 1
    /\ cbs[1].result = "Success"
    /\ nextId = 2
    /\ nreq = 4

\* The head of the queue has not been started by do_work.
HeadUnstarted == _work_queue # <<>> /\ ~Head(_work_queue).started

\* The step has left the queue alone, sent nothing and called nothing back.
Untouched == _work_queue' = _work_queue /\ out' = <<>> /\ cbs' = <<>>

\* C33: a timer fire that finds a head item do_work has not started leaves it
\* alone: no retry counted, nothing sent, no completion.
C33_TimeoutSparesUnstartedHead ==
    [][(ev'.type = "timeout" /\ HeadUnstarted) => Untouched]_vars

\* C34: an inbound payload leaves a head item that do_work has not started
\* alone: it is not completed, not popped, not changed.
C34_PayloadSparesUnstartedHead ==
    [][(ev'.type = "recv" /\ HeadUnstarted) => Untouched]_vars

\* C35: a payload that gets past the req_opcode and duplicate filters and is
\* neither a NAK nor an ACK the item handles leaves the head item as it was,
\* last_seq_number included.
C35_UnhandledPayloadNoEffect ==
    [][(/\ ev'.type = "recv"
        /\ Passes(ev'.p)
        /\ ~Handled(Head(_work_queue), ev'.p)) => Untouched]_vars

\* C36: a download item in the queue has bytes_transferred <= file_size.
C36_BytesWithinFileSize ==
    \A k \in DOMAIN _work_queue :
       _work_queue[k].kind = "download" =>
          _work_queue[k].bytes_transferred <= _work_queue[k].file_size

\* C37: the step that ends an item with another result than Success while
\* its file is open on the server (READ_FILE or WRITE_FILE in flight) sends
\* TERMINATE_SESSION.
C37_FailureClosesSession ==
    [][\A k \in DOMAIN cbs' :
          (/\ cbs'[k].result \notin {"Next", "Success"}
           /\ _work_queue # <<>>
           /\ Head(_work_queue).id = cbs'[k].id
           /\ Head(_work_queue).last_opcode \in {"CMD_READ_FILE", "CMD_WRITE_FILE"})
          => \E j \in DOMAIN out' : out'[j].payload.opcode = "CMD_TERMINATE_SESSION"]_vars

\* The requests whose ACK gives the item its retries back.
ResetsRetries ==
    {"CMD_OPEN_FILE_RO", "CMD_READ_FILE", "CMD_OPEN_FILE_WO", "CMD_WRITE_FILE"}

\* The inbound handler has just accepted an ACK that gives the retries back,
\* and the item is still the head.
AckKeepsItem ==
    /\ ev'.type = "recv"
    /\ Passes(ev'.p)
    /\ ev'.p.opcode = "RSP_ACK"
    /\ ev'.p.req_opcode \in ResetsRetries
    /\ _work_queue' # <<>>
    /\ Head(_work_queue').id = Head(_work_queue).id

\* The request just sent is the head item's, and the item has all its retries.
NewRequestHasFullBudget ==
    /\ _work_queue' # <<>>
    /\ Head(_work_queue').payload = out'[Len(out')].payload
    /\ Head(_work_queue').retries = RETRIES

\* C38: an ACK of OPEN_FILE_RO, READ_FILE, OPEN_FILE_WO or WRITE_FILE that the
\* head item accepts sets its retries to RETRIES; every request sent in answer
\* to a response, TERMINATE_SESSION included, goes out with retries = RETRIES;
\* and every item in the queue has 0 < retries <= RETRIES.
C38_RetriesPerRequest ==
    /\ [][AckKeepsItem => Head(_work_queue').retries = RETRIES]_vars
    /\ [][(ev'.type = "recv" /\ out' # <<>>) => NewRequestHasFullBudget]_vars
    /\ [](\A k \in DOMAIN _work_queue :
            0 < _work_queue[k].retries /\ _work_queue[k].retries <= RETRIES)

\* TERMINATE_SESSION has just been sent on the ACK of a READ_FILE, and the
\* item has all its retries.
C38_Witness ==
    /\ ev.type = "recv"
    /\ ev.p.opcode = "RSP_ACK"
    /\ ev.p.req_opcode = "CMD_READ_FILE"
    /\ _work_queue # <<>>
    /\ Head(_work_queue).last_opcode = "CMD_TERMINATE_SESSION"
    /\ Head(_work_queue).retries = RETRIES
    /\ out # <<>>

\* The serial-number comparison of two 16-bit values.
SerialLess(a, b) ==
    \/ a < b /\ b - a < 2 ^ 15
    \/ a > b /\ a - b > 2 ^ 15

\* C40: seq_lt(a, b) is the serial-number comparison of a and b, and
\* seq_lt(a, b) and seq_lt(b, a) are not both true.
C40_SeqLtIsSerialComparison ==
    ev.type = "seq_lt returned" =>
        /\ ev.arg.ab = SerialLess(ev.arg.a, ev.arg.b)
        /\ ~(ev.arg.ab /\ ev.arg.ba)

\* The frames of the step that are requests sent for the first time.
NewRequests == {k \in DOMAIN out' : out'[k].ctx # "timeout"}

\* C39: no two requests carry the same seq_number: not two sent in the same
\* step from different contexts, and none the seq_number of the request sent
\* before it.
C39_NoSharedSeqNumber ==
    [][/\ \A j \in NewRequests : \A k \in NewRequests :
            j < k => out'[j].payload.seq_number # out'[k].payload.seq_number
       /\ \A k \in NewRequests :
            out'[k].payload.seq_number # lastSeq.new]_vars

\* The step has delivered no terminal callback but Success.
OnlySuccess == \A k \in DOMAIN cbs' : cbs'[k].result \in {"Next", "Success"}

\* The frame the timer sends is the last request of its item.
ResendsSameRequest ==
    (ev'.type = "timeout" /\ out' # <<>>) =>
        /\ Len(out') = 1
        /\ out'[1].payload = lastFrameOf[out'[1].owner]

\* C31: with a server that answers every request it receives and a link that
\* loses at most LossBudget transmissions of each request, every download and
\* upload that was requested eventually gets its terminal callback, which is
\* Success; and what the timer sends is the same request again.
C31_TransfersCompleteDespiteLoss ==
    /\ [][OnlySuccess /\ ResendsSameRequest]_vars
    /\ \A i \in Ids : (ops[i] \in QueuedKinds) ~> (termCount[i] = 1)

\* A transfer has ended with Success although the last request or its answer
\* was lost as often as the link may lose it.
C31_Witness ==
    /\ ev.type = "recv"
    /\ Len(cbs) = 1
    /\ cbs[1].result = "Success"
    /\ net.lost = LossBudget

\* C32: when a download completes with Success, every chunk written to the
\* local file came from the offset it was written at, and the bytes written
\* are as many as the remote file has.
C32_DownloadedFileIsRemoteFile ==
    [][\A k \in DOMAIN cbs' :
          (cbs'[k].result = "Success" /\ ops'[cbs'[k].id] = "download") =>
             /\ intact[cbs'[k].id]
             /\ Head(_work_queue).bytes_transferred = net.remote]_vars

====
